---- MODULE Spec2Model ----
(***************************************************************************)
(* A model of pnelson/mdoc: the http.Handler built by New (src/mdoc.go,    *)
(* src/options.go) that serves a directory of Markdown documents.          *)
(*                                                                         *)
(* Go strings are sequences of one-character strings, so that path.Clean,  *)
(* path.Base, filepath.Ext, strings.HasPrefix/HasSuffix and the byte-wise  *)
(* string comparison are computed character by character as Go does.       *)
(***************************************************************************)
EXTENDS Integers, Sequences, FiniteSets, TLC

(***************************************************************************)
(* Bounds of the model.                                                    *)
(***************************************************************************)
\* the largest number of path segments of a request URL path
MaxSegs == 2
\* the largest number of options passed to New
MaxOpts == 2
\* the largest number of entries of a directory handed to getFiles
MaxEntries == 3
\* the most segments of a URL path of the path resolution specification
MaxPathSegs == 4

(***************************************************************************)
(* Strings.                                                                *)
(***************************************************************************)
\* the byte value of a character (ASCII), for Go's byte-wise string order
Ord(c) ==
  CASE c = "." -> 46 [] c = "/" -> 47 [] c = "1" -> 49 [] c = "=" -> 61
    [] c = "?" -> 63
    [] c = "B" -> 66 [] c = "D" -> 68 [] c = "M" -> 77
    [] c = "a" -> 97 [] c = "b" -> 98 [] c = "c" -> 99 [] c = "d" -> 100
    [] c = "e" -> 101 [] c = "g" -> 103 [] c = "h" -> 104 [] c = "i" -> 105
    [] c = "k" -> 107 [] c = "m" -> 109 [] c = "n" -> 110 [] c = "o" -> 111
    [] c = "q" -> 113 [] c = "r" -> 114 [] c = "s" -> 115 [] c = "t" -> 116
    [] c = "u" -> 117 [] c = "w" -> 119 [] c = "x" -> 120 [] c = "z" -> 122

\* strings.HasPrefix(s, p)
HasPrefix(s, p) == Len(s) >= Len(p) /\ SubSeq(s, 1, Len(p)) = p

\* strings.HasSuffix(s, p)
HasSuffix(s, p) == Len(s) >= Len(p) /\ SubSeq(s, Len(s) - Len(p) + 1, Len(s)) = p

\* strings.TrimPrefix(s, p)
TrimPrefix(s, p) == IF HasPrefix(s, p) THEN SubSeq(s, Len(p) + 1, Len(s)) ELSE s

\* Go's s < t on strings: byte-wise lexical order
RECURSIVE StrLess(_, _)
StrLess(s, t) ==
  IF t = <<>> THEN FALSE
  ELSE IF s = <<>> THEN TRUE
  ELSE IF Ord(Head(s)) # Ord(Head(t)) THEN Ord(Head(s)) < Ord(Head(t))
  ELSE StrLess(Tail(s), Tail(t))

\* the index of the last "/" of p, 0 when there is none
RECURSIVE LastSlash(_)
LastSlash(p) ==
  IF p = <<>> THEN 0
  ELSE IF p[Len(p)] = "/" THEN Len(p)
  ELSE LastSlash(SubSeq(p, 1, Len(p) - 1))

\* p without its trailing "/" characters
RECURSIVE StripSlashes(_)
StripSlashes(p) ==
  IF p # <<>> /\ p[Len(p)] = "/" THEN StripSlashes(SubSeq(p, 1, Len(p) - 1)) ELSE p

\* Base without the removal of trailing "/" characters
BaseNoStrip(p) ==
  IF p = <<>> THEN <<".">>
  ELSE LET r == SubSeq(p, LastSlash(p) + 1, Len(p))
       IN IF r = <<>> THEN <<"/">> ELSE r

\* path.Base(p)
Base(p) ==
  IF p = <<>> THEN <<".">>
  ELSE LET q == StripSlashes(p)
           r == SubSeq(q, LastSlash(q) + 1, Len(q))
       IN IF r = <<>> THEN <<"/">> ELSE r

\* filepath.Ext(p): scanning back from the end, the suffix that starts at the
\* first "." met before any "/"; empty when a "/" or the start comes first
RECURSIVE ExtFrom(_, _)
ExtFrom(p, i) ==
  IF i < 1 \/ p[i] = "/" THEN <<>>
  ELSE IF p[i] = "." THEN SubSeq(p, i, Len(p))
  ELSE ExtFrom(p, i - 1)

Ext(p) == ExtFrom(p, Len(p))

(***************************************************************************)
(* path.Clean, as the Go library computes it: r is the read index (0-based *)
(* in Go, 1-based here), out the output buffer, dotdot the index below     *)
(* which ".." cannot backtrack.                                            *)
(***************************************************************************)
\* out cut back to the segment boundary a ".." steps over: the write index wi
\* goes down until the byte it stands on is the "/" before the segment
RECURSIVE Backtrack(_, _, _)
Backtrack(out, wi, dotdot) ==
  IF wi > dotdot /\ out[wi + 1] # "/"
    THEN Backtrack(out, wi - 1, dotdot)
    ELSE SubSeq(out, 1, wi)

\* the index of the first "/" of p at or after r, Len(p) + 1 when none
RECURSIVE SegEnd(_, _)
SegEnd(p, r) == IF r > Len(p) \/ p[r] = "/" THEN r ELSE SegEnd(p, r + 1)

RECURSIVE CleanLoop(_, _, _, _, _)
CleanLoop(p, rooted, r, out, dotdot) ==
  LET n == Len(p) IN
  IF r > n THEN out
  ELSE IF p[r] = "/" THEN CleanLoop(p, rooted, r + 1, out, dotdot)
  ELSE IF p[r] = "." /\ (r = n \/ p[r + 1] = "/")
    THEN CleanLoop(p, rooted, r + 1, out, dotdot)
  ELSE IF p[r] = "." /\ p[r + 1] = "." /\ (r + 1 = n \/ p[r + 2] = "/")
    THEN IF Len(out) > dotdot
           THEN CleanLoop(p, rooted, r + 2,
                          Backtrack(out, Len(out) - 1, dotdot), dotdot)
         ELSE IF ~rooted
           THEN LET o == (IF Len(out) > 0 THEN out \o <<"/">> ELSE out) \o <<".", ".">>
                IN CleanLoop(p, rooted, r + 2, o, Len(o))
         ELSE CleanLoop(p, rooted, r + 2, out, dotdot)
  ELSE LET o == IF (rooted /\ Len(out) # 1) \/ (~rooted /\ Len(out) # 0)
                  THEN out \o <<"/">> ELSE out
           e == SegEnd(p, r)
       IN CleanLoop(p, rooted, e, o \o SubSeq(p, r, e - 1), dotdot)

\* the path left as the request gave it
CleanIdentity(p) == p

\* path.Clean(p)
Clean(p) ==
  IF p = <<>> THEN <<".">>
  ELSE LET rooted == p[1] = "/"
           out == IF rooted THEN CleanLoop(p, TRUE, 2, <<"/">>, 1)
                            ELSE CleanLoop(p, FALSE, 1, <<>>, 0)
       IN IF out = <<>> THEN <<".">> ELSE out

(***************************************************************************)
(* String constants of the program and of the modelled site.               *)
(***************************************************************************)
\* "/index.md", appended to a directory's name (src/mdoc.go:80)
sIndexSuffix == <<"/", "i", "n", "d", "e", "x", ".", "m", "d">>
\* the Markdown extensions of isMarkdownFile (src/mdoc.go:196)
sMd == <<".", "m", "d">>
sMarkdown == <<".", "m", "a", "r", "k", "d", "o", "w", "n">>
\* defaultRoot (src/options.go:23)
defaultRoot == <<"/">>
\* defaultThemeDir (src/options.go:34)
defaultThemeDir ==
  <<"c", "o", "n", "t", "r", "i", "b", "/", "t", "h", "e", "m", "e", "s", "/",
    "d", "e", "f", "a", "u", "l", "t">>

\* entry names of the served tree
nD == <<"d">>
nE == <<"e">>
nAmd == <<"a", ".", "m", "d">>
nCtxt == <<"c", ".", "t", "x", "t">>
nIndexMd == <<"i", "n", "d", "e", "x", ".", "m", "d">>
nHidden == <<".", "h", ".", "m", "d">>
nZmarkdown == <<"z", ".", "m", "a", "r", "k", "d", "o", "w", "n">>
nBmd == <<"B", ".", "m", "d">>
nDotDot == <<".", ".">>
nAmdx == <<"a", ".", "m", "d", "x">>
nAMD == <<"a", ".", "M", "D">>
nMd == <<"m", "d">>

(***************************************************************************)
(* The filesystem under the base directory: each entry is the sequence of  *)
(* its path components and its kind.  d/ holds an index.md file, e/ holds  *)
(* an entry index.md that is itself a directory, the base directory holds  *)
(* no index.md.                                                            *)
(***************************************************************************)
Tree ==
  { << <<>>, "dir" >>,
    << <<nD>>, "dir" >>,
    << <<nD, nIndexMd>>, "file" >>,
    << <<nD, nAmd>>, "file" >>,
    << <<nE>>, "dir" >>,
    << <<nE, nIndexMd>>, "dir" >>,
    << <<nE, nIndexMd, nZmarkdown>>, "file" >>,
    << <<nE, nHidden>>, "file" >>,
    << <<nAmd>>, "file" >>,
    << <<nCtxt>>, "file" >> }

\* the kind of the entry with these components: "dir", "file" or "none"
Kind(comps) ==
  IF \E n \in Tree : n[1] = comps
    THEN (CHOOSE n \in Tree : n[1] = comps)[2]
    ELSE "none"

\* the non-empty components of a slash-separated path, as the OS walks it
RECURSIVE Split(_)
Split(p) ==
  IF p = <<>> THEN <<>>
  ELSE IF p[1] = "/" THEN Split(Tail(p))
  ELSE LET e == SegEnd(p, 1)
       IN <<SubSeq(p, 1, e - 1)>> \o Split(SubSeq(p, e, Len(p)))

\* the components, below the base directory dir, of the file name handed to os.Open
Components(dir, name) == Split(SubSeq(name, Len(dir) + 1, Len(name)))

\* the entries of a directory, as os.FileInfo values (Name, IsDir)
Entries(comps) ==
  { [Name |-> n[1][Len(n[1])], IsDir |-> n[2] = "dir"] :
      n \in { m \in Tree : /\ Len(m[1]) = Len(comps) + 1
                           /\ SubSeq(m[1], 1, Len(comps)) = comps } }

\* every order in which a set of entries can be returned
Orders(S) ==
  { s \in [1..Cardinality(S) -> S] :
      \A i, j \in 1..Cardinality(S) : i # j => s[i] # s[j] }

(***************************************************************************)
(* Failures.  ErrNotFound is the package's sentinel; the others are the    *)
(* errno values os.Open, Stat, Readdir and ReadAll can fail with, and      *)
(* ErrRender is a failure of a rendering hook.                             *)
(***************************************************************************)
ErrNotFound == "ErrNotFound"
Errors == {ErrNotFound, "ENOENT", "ENOTDIR", "EACCES", "EPERM", "EMFILE", "EIO", "ErrRender"}

\* os.IsNotExist(err)
IsNotExist(err) == err = "ENOENT"

\* os.IsPermission(err)
IsPermission(err) == err \in {"EACCES", "EPERM"}

\* the outcomes of os.Open(name): "nil" for success, or the failure
OpenOutcomes(dir, name) ==
  LET comps == Components(dir, name) IN
  IF Kind(comps) # "none" THEN {"nil", "EACCES", "EMFILE"}
  ELSE IF \E k \in 1..Len(comps) : Kind(SubSeq(comps, 1, k)) = "file" THEN {"ENOTDIR"}
  ELSE {"ENOENT"}

(***************************************************************************)
(* isMarkdownFile, getFiles and byName (src/mdoc.go:194-250).              *)
(***************************************************************************)
\* isMarkdownFile accepting every file that has an extension
isMarkdownFileAnyExt(name) == Ext(name) # <<>>

\* isMarkdownFile comparing the extension without regard to case
isMarkdownFileAnyCase(name) == Ext(name) \in {sMd, sMarkdown, <<".", "M", "D">>}

isMarkdownFile(name) == Ext(name) \in {sMd, sMarkdown}

\* Less comparing the names alone
byNameLessNameOnly(a, b) == StrLess(a.Name, b.Name)

\* byName.Less on two File values
byNameLess(a, b) ==
  CASE a.IsDir /\ ~b.IsDir -> TRUE
    [] ~a.IsDir /\ b.IsDir -> FALSE
    [] OTHER -> StrLess(a.Name, b.Name)

\* byName.Swap
Swap(v, i, j) == [v EXCEPT ![i] = v[j], ![j] = v[i]]

\* sort.Sort on a short slice is an insertion sort driven by Less and Swap
RECURSIVE SinkDown(_, _)
SinkDown(v, j) ==
  IF j > 1 /\ byNameLess(v[j], v[j - 1]) THEN SinkDown(Swap(v, j, j - 1), j - 1) ELSE v

RECURSIVE InsertionSort(_, _)
InsertionSort(v, i) == IF i > Len(v) THEN v ELSE InsertionSort(SinkDown(v, i), i + 1)

SortByName(v) == InsertionSort(v, 2)

\* the loop of getFiles: the File values that are not skipped, in input order
Skipped(f) == HasPrefix(f.Name, <<".">>) \/ (~f.IsDir /\ ~isMarkdownFile(f.Name))

Kept(f) == ~Skipped(f)

\* getFiles on the entries fis that Readdir returned
getFiles(fis) == SortByName(SelectSeq(fis, Kept))

(***************************************************************************)
(* Layout (src/mdoc.go:115-131).                                           *)
(***************************************************************************)
LayoutDir(v) == <<"/">> \o TrimPrefix(v.path, v.root)

(***************************************************************************)
(* The response writer: the first WriteHeader decides the status and       *)
(* freezes the headers, later ones are ignored; a Write before any         *)
(* WriteHeader sends 200.                                                  *)
(***************************************************************************)
NoResponse == [wrote |-> FALSE, status |-> 0, location |-> <<>>, body |-> <<>>]

SetLocation(w, loc) == IF w.wrote THEN w ELSE [w EXCEPT !.location = loc]

WriteHeader(w, code) ==
  IF w.wrote THEN w ELSE [w EXCEPT !.wrote = TRUE, !.status = code]

Write(w, chunk) ==
  LET w1 == WriteHeader(w, 200) IN [w1 EXCEPT !.body = @ \o chunk]

\* http.StatusText
StatusText(code) ==
  CASE code = 404 -> "Not Found"
    [] code = 403 -> "Forbidden"
    [] code = 500 -> "Internal Server Error"
    [] OTHER -> ""

\* http.Error(w, text, code)
HttpError(w, text, code) == Write(WriteHeader(w, code), <<[text |-> text]>>)

\* redirect dropping the query string
redirectNoQuery(w, q, loc) == WriteHeader(SetLocation(w, loc), 307)

\* redirect (src/mdoc.go:185-192)
redirect(w, q, loc) ==
  LET l == IF q # <<>> THEN loc \o <<"?">> \o q ELSE loc
  IN WriteHeader(SetLocation(w, l), 307)

\* the status chosen without the case of the sentinel ErrNotFound
defaultErrorCodeNoSentinel(err) ==
  CASE IsNotExist(err) -> 404
    [] IsPermission(err) -> 403
    [] OTHER -> 500

\* the status chosen without the case of a permission failure
defaultErrorCodeNoPermission(err) ==
  CASE err = ErrNotFound -> 404
    [] IsNotExist(err) -> 404
    [] OTHER -> 500

\* the status defaultErrorHandler chooses (src/options.go:91-101)
defaultErrorCode(err) ==
  CASE err = ErrNotFound -> 404
    [] IsNotExist(err) -> 404
    [] IsPermission(err) -> 403
    [] OTHER -> 500

\* defaultErrorHandler (src/options.go:90-103)
defaultErrorHandler(w, err) ==
  LET code == defaultErrorCode(err) IN HttpError(w, StatusText(code), code)

(***************************************************************************)
(* Options and New (src/options.go, src/mdoc.go:32-51).                    *)
(***************************************************************************)
\* the base directories New is called with
Dirs == {<<>>, <<"w">>}

\* the options New is called with
Options ==
  { [opt |-> "Root", arg |-> <<"/", "m", "/">>],
    [opt |-> "Theme", arg |-> <<"t">>],
    [opt |-> "IndexRenderer", arg |-> <<"customIndexRenderer">>],
    [opt |-> "DocumentRenderer", arg |-> <<"customDocumentRenderer">>],
    [opt |-> "ErrorHandler", arg |-> <<"customErrorHandler">>] }

OptionLists == UNION { [1..n -> Options] : n \in 0..MaxOpts }

\* the handler before New has run
NoHandler ==
  [dir |-> <<>>, root |-> <<>>, themeDir |-> <<>>, assetsDir |-> <<>>,
   indexRenderer |-> "nil", documentRenderer |-> "nil", errorHandler |-> "nil"]

\* option(h) for each of the five options
ApplyOption(hd, o) ==
  CASE o.opt = "Root" -> [hd EXCEPT !.root = o.arg]
    [] o.opt = "Theme" -> [hd EXCEPT !.themeDir = o.arg]
    [] o.opt = "IndexRenderer" -> [hd EXCEPT !.indexRenderer = o.arg[1]]
    [] o.opt = "DocumentRenderer" -> [hd EXCEPT !.documentRenderer = o.arg[1]]
    [] o.opt = "ErrorHandler" -> [hd EXCEPT !.errorHandler = o.arg[1]]

RECURSIVE ApplyOptions(_, _)
ApplyOptions(hd, os) ==
  IF os = <<>> THEN hd ELSE ApplyOptions(ApplyOption(hd, Head(os)), Tail(os))

\* filepath.Join(themeDir, "assets")
AssetsDir(themeDir) == Clean(themeDir \o <<"/", "a", "s", "s", "e", "t", "s">>)

\* New(dir, opts...): the handler h that the returned mux serves "/" with
New(dir, os) ==
  LET h0 == [NoHandler EXCEPT !.dir = IF dir = <<>> THEN <<".">> ELSE dir,
                              !.root = defaultRoot,
                              !.themeDir = defaultThemeDir,
                              !.errorHandler = "defaultErrorHandler"]
      h1 == ApplyOptions(h0, os)
      h2 == [h1 EXCEPT !.indexRenderer = "defaultIndexRenderer",
                       !.documentRenderer = "defaultDocumentRenderer"]
  IN [h2 EXCEPT !.assetsDir = AssetsDir(h2.themeDir)]

(***************************************************************************)
(* Requests.                                                               *)
(***************************************************************************)
\* the path segments request URL paths are built from; the empty segment
\* gives the paths with repeated "/"
SegNames == {nD, nE, nAmd, nCtxt, nDotDot, <<>>}

SegLists == UNION { [1..n -> SegNames] : n \in 0..MaxSegs }

RECURSIVE JoinSegs(_)
JoinSegs(ss) ==
  IF ss = <<>> THEN <<>>
  ELSE IF Len(ss) = 1 THEN ss[1]
  ELSE ss[1] \o <<"/">> \o JoinSegs(Tail(ss))

\* req.URL.Path: with or without a leading "/", with or without a trailing "/"
URLPaths ==
  { lead \o JoinSegs(ss) \o trail :
      lead \in {<<>>, <<"/">>}, ss \in SegLists, trail \in {<<>>, <<"/">>} }

\* req.URL.RawQuery
Queries == {<<>>, <<"q", "=", "1">>}

(***************************************************************************)
(* The mux that New returns (src/mdoc.go:47-49) and the asset URLs that    *)
(* Layout.StaticFile builds (src/mdoc.go:128-131).                         *)
(***************************************************************************)
\* "/.mdoc/assets/", the pattern the asset file server is registered under
sAssetsPattern ==
  <<"/", ".", "m", "d", "o", "c", "/", "a", "s", "s", "e", "t", "s", "/">>

\* ".mdoc/assets", what StaticFile joins between the root and the name
sAssetsPath == <<".", "m", "d", "o", "c", "/", "a", "s", "s", "e", "t", "s">>

NonEmpty(e) == e # <<>>

\* path.Join(elems...): the non-empty elements joined by "/" and cleaned
JoinPath(elems) ==
  LET es == SelectSeq(elems, NonEmpty) IN
  IF es = <<>> THEN <<>> ELSE Clean(JoinSegs(es))

\* Layout.StaticFile(n)
StaticFile(v, n) == JoinPath(<<v.root, sAssetsPath, n>>)

\* the asset names a template asks for
AssetNames == { <<"a", ".", "c", "s", "s">>, <<"j", "s", "/", "a", ".", "j", "s">> }

\* which handler of the mux serves the URL path p, and the path it is given:
\* the longest registered pattern that is a prefix of p wins, and the asset
\* file server sits behind http.StripPrefix
Route(hd, p) ==
  IF HasPrefix(p, sAssetsPattern)
    THEN [handler |-> "assets",
          file |-> hd.assetsDir \o <<"/">> \o TrimPrefix(p, sAssetsPattern)]
    ELSE [handler |-> "ServeHTTP", file |-> <<>>]

(***************************************************************************)
(* State.                                                                  *)
(***************************************************************************)
VARIABLES
  pc,           \* where the program is: "new", "idle", or a point of ServeHTTP
  h,            \* the handler New built (src/mdoc.go:21-29)
  given,        \* the names of the options New was called with
  req,          \* the request being served: URL.Path and URL.RawQuery
  url,          \* ServeHTTP's url
  name,         \* ServeHTTP's name
  f,            \* ServeHTTP's f: the name and kind of the open file it refers to
  fi,           \* ServeHTTP's fi
  isIndexPage,  \* ServeHTTP's isIndexPage
  b,            \* ServeHTTP's b: the rendered bytes, <<>> when nil
  err,          \* ServeHTTP's err after rendering, "nil" when none
  defers,       \* the deferred Close calls, in the order they were deferred
  w,            \* the response
  page,         \* the IndexPage or DocumentPage handed to a rendering hook
  events,       \* the calls made while serving the request, in order
  fis,          \* getFiles alone: the entries Readdir returned
  files,        \* getFiles alone: the listing returned
  sched         \* concurrent requests alone: the goroutine not running now

vars ==
  <<pc, h, given, req, url, name, f, fi, isIndexPage, b, err, defers, w, page,
    events, fis, files, sched>>

\* no second goroutine
NoSched == [phase |-> "none"]

NoFile == [name |-> <<>>, kind |-> "none"]
NoRequest == [Path |-> <<>>, RawQuery |-> <<>>]
NoPage == [kind |-> "none"]

\* the locals of ServeHTTP and the response, before a request
FreshRequest ==
  /\ req = NoRequest
  /\ url = <<>>
  /\ name = <<>>
  /\ f = NoFile
  /\ fi = NoFile
  /\ isIndexPage = FALSE
  /\ b = <<>>
  /\ err = "nil"
  /\ defers = <<>>
  /\ w = NoResponse
  /\ page = NoPage
  /\ events = <<>>

Init ==
  /\ pc = "new"
  /\ h = NoHandler
  /\ given = {}
  /\ FreshRequest
  /\ fis = <<>>
  /\ files = <<>>
  /\ sched = NoSched

Event(op, arg) == [op |-> op, arg |-> arg]

\* every deferred call closing the handle f holds when ServeHTTP returns
RunDefersOnCurrentFile(ds) == [i \in 1..Len(ds) |-> Event("Close", f.name)]

\* the deferred calls run last-deferred first when ServeHTTP returns
RECURSIVE RunDefers(_)
RunDefers(ds) ==
  IF ds = <<>> THEN <<>>
  ELSE <<Event("Close", ds[Len(ds)])>> \o RunDefers(SubSeq(ds, 1, Len(ds) - 1))

\* h.errorHandler(w, req, e): the default handler, or a replacement that
\* either writes a response of its own or writes nothing
ErrorHandlerResponses(e) ==
  IF h.errorHandler = "defaultErrorHandler"
    THEN {defaultErrorHandler(w, e)}
    ELSE {w, HttpError(w, "custom", 418)}

(***************************************************************************)
(* New.                                                                    *)
(***************************************************************************)
NewHandler ==
  /\ pc = "new"
  /\ \E dir \in Dirs, os \in OptionLists :
       /\ h' = New(dir, os)
       /\ given' = {os[i].opt : i \in 1..Len(os)}
  /\ pc' = "idle"
  /\ UNCHANGED <<req, url, name, f, fi, isIndexPage, b, err, defers, w, page,
                 events, fis, files, sched>>

(***************************************************************************)
(* ServeHTTP (src/mdoc.go:54-108), one action per step.                    *)
(***************************************************************************)
\* the resolved name kept in the handler, as the directory of what follows
ResolveIntoHandler(p, q) ==
  LET u == IF ~HasPrefix(p, <<"/">>) THEN <<"/">> \o p ELSE p
      n == IF u # <<"/">> THEN h.dir \o Clean(u) ELSE h.dir IN
  /\ req' = [Path |-> p, RawQuery |-> q]
  /\ url' = u
  /\ name' = n
  /\ h' = [h EXCEPT !.dir = n]
  /\ pc' = "open"
  /\ UNCHANGED <<given, f, fi, isIndexPage, b, err, defers, w, page, events,
                 fis, files>>

\* lines 55-62: normalise the URL path and resolve the file name
Resolve(p, q) ==
  LET u == IF ~HasPrefix(p, <<"/">>) THEN <<"/">> \o p ELSE p IN
  /\ req' = [Path |-> p, RawQuery |-> q]
  /\ url' = u
  /\ name' = IF u # <<"/">> THEN h.dir \o Clean(u) ELSE h.dir
  /\ pc' = "open"
  /\ UNCHANGED <<h, given, f, fi, isIndexPage, b, err, defers, w, page, events,
                 fis, files>>

\* a request arrives at the handler
Request ==
  /\ pc = "idle"
  /\ \E p \in URLPaths, q \in Queries : Resolve(p, q)
  /\ UNCHANGED sched

\* ServeHTTP returns: the deferred closes run
Return(evs) ==
  /\ events' = evs \o RunDefers(defers)
  /\ defers' = <<>>
  /\ pc' = "done"

\* os.Open(name) with every failure reported as ErrNotFound
OpenReportsNotFound ==
  /\ pc = "open"
  /\ \E e \in OpenOutcomes(h.dir, name) :
       IF e # "nil"
         THEN /\ \E w1 \in ErrorHandlerResponses(ErrNotFound) : w' = w1
              /\ Return(events \o <<Event("OpenFailed", e),
                                     Event("errorHandler", ErrNotFound)>>)
              /\ UNCHANGED f
         ELSE /\ f' = [name |-> name, kind |-> Kind(Components(h.dir, name))]
              /\ events' = events \o <<Event("Open", name)>>
              /\ defers' = defers \o <<name>>
              /\ pc' = "stat"
              /\ UNCHANGED w
  /\ UNCHANGED <<h, given, req, url, name, fi, isIndexPage, b, err, page, fis, files, sched>>

\* lines 63-68: os.Open(name)
Open ==
  /\ pc = "open"
  /\ \E e \in OpenOutcomes(h.dir, name) :
       IF e # "nil"
         THEN /\ \E w1 \in ErrorHandlerResponses(e) : w' = w1
              /\ Return(events \o <<Event("OpenFailed", e), Event("errorHandler", e)>>)
              /\ UNCHANGED f
         ELSE /\ f' = [name |-> name, kind |-> Kind(Components(h.dir, name))]
              /\ events' = events \o <<Event("Open", name)>>
              /\ defers' = defers \o <<name>>
              /\ pc' = "stat"
              /\ UNCHANGED w
  /\ UNCHANGED <<h, given, req, url, name, fi, isIndexPage, b, err, page, fis, files, sched>>

\* lines 69-73: f.Stat()
Stat ==
  /\ pc = "stat"
  /\ \E e \in {"nil", "EIO"} :
       IF e # "nil"
         THEN /\ \E w1 \in ErrorHandlerResponses(e) : w' = w1
              /\ Return(events \o <<Event("StatFailed", e), Event("errorHandler", e)>>)
              /\ UNCHANGED fi
         ELSE /\ fi' = f
              /\ events' = events \o <<Event("Stat", f.name)>>
              /\ pc' = "dir"
              /\ UNCHANGED <<w, defers>>
  /\ UNCHANGED <<h, given, req, url, name, f, isIndexPage, b, err, page, fis, files, sched>>

\* lines 74-80: a directory without a trailing "/" is redirected, one with it
\* is probed for index.md
DirCheck ==
  /\ pc = "dir"
  /\ IF fi.kind = "dir"
       THEN IF ~HasSuffix(url, <<"/">>)
              THEN LET loc == Base(url) \o <<"/">> IN
                   /\ w' = redirect(w, req.RawQuery, loc)
                   /\ Return(events \o <<Event("redirect", loc)>>)
                   /\ UNCHANGED name
              ELSE /\ name' = name \o sIndexSuffix
                   /\ pc' = "probe"
                   /\ UNCHANGED <<w, events, defers>>
       ELSE /\ pc' = "render"
            /\ UNCHANGED <<w, events, defers, name>>
  /\ UNCHANGED <<h, given, req, url, f, fi, isIndexPage, b, err, page, fis, files, sched>>

\* the probe of index.md with a failed open handed to the error handler
ProbeReportsFailure ==
  /\ pc = "probe"
  /\ \E e \in OpenOutcomes(h.dir, name), se \in {"nil", "EIO"} :
       IF e # "nil"
         THEN /\ \E w1 \in ErrorHandlerResponses(e) : w' = w1
              /\ Return(events \o <<Event("OpenIndexFailed", e),
                                     Event("errorHandler", e)>>)
              /\ UNCHANGED <<f, fi, isIndexPage>>
         ELSE LET ff == [name |-> name, kind |-> Kind(Components(h.dir, name))] IN
              /\ defers' = defers \o <<name>>
              /\ events' = events \o <<Event("OpenIndex", name),
                                         Event(IF se = "nil" THEN "StatIndex"
                                                             ELSE "StatIndexFailed", name)>>
              /\ IF se = "nil"
                   THEN /\ f' = ff
                        /\ fi' = ff
                        /\ isIndexPage' = TRUE
                   ELSE UNCHANGED <<f, fi, isIndexPage>>
              /\ pc' = "render"
              /\ UNCHANGED w
  /\ UNCHANGED <<h, given, req, url, name, b, err, page, fis, files, sched>>

\* lines 81-90: os.Open(name) of index.md and its Stat
Probe ==
  /\ pc = "probe"
  /\ \E e \in OpenOutcomes(h.dir, name), se \in {"nil", "EIO"} :
       IF e # "nil"
         THEN /\ events' = events \o <<Event("OpenIndexFailed", e)>>
              /\ UNCHANGED <<f, fi, isIndexPage, defers>>
         ELSE LET ff == [name |-> name, kind |-> Kind(Components(h.dir, name))] IN
              /\ defers' = defers \o <<name>>
              /\ events' = events \o <<Event("OpenIndex", name),
                                         Event(IF se = "nil" THEN "StatIndex"
                                                             ELSE "StatIndexFailed", name)>>
              /\ IF se = "nil"
                   THEN /\ f' = ff
                        /\ fi' = ff
                        /\ isIndexPage' = TRUE
                   ELSE UNCHANGED <<f, fi, isIndexPage>>
  /\ pc' = "render"
  /\ UNCHANGED <<h, given, req, url, name, b, err, w, page, fis, files, sched>>

\* h.renderIndex (src/mdoc.go:139-152): the outcomes <<bytes, error, page, calls>>
renderIndex ==
  LET listing == Orders(Entries(Components(h.dir, f.name)))
      v(ents) == [kind |-> "index",
                  Layout |-> [root |-> h.root, path |-> url],
                  Files |-> getFiles(ents)]
      call == Event("indexRenderer", h.indexRenderer)
  IN  { << <<>>, "EIO", NoPage, <<Event("Readdir", f.name)>> >> }
      \cup { << <<[by |-> h.indexRenderer, page |-> v(ents)]>>, "nil", v(ents),
                <<Event("Readdir", f.name), call>> >> : ents \in listing }
      \cup { << <<>>, "ErrRender", v(ents),
                <<Event("Readdir", f.name), call>> >> : ents \in listing }

\* h.renderDocument (src/mdoc.go:165-183): the outcomes <<bytes, error, page, calls>>
renderDocument ==
  LET v == [kind |-> "document",
            Layout |-> [root |-> h.root, path |-> url],
            Name |-> f.name,
            Content |-> [html |-> f.name]]
      call == Event("documentRenderer", h.documentRenderer)
  IN  IF ~isMarkdownFile(f.name)
        THEN { << <<>>, ErrNotFound, NoPage, <<>> >> }
        ELSE { << <<>>, "EIO", NoPage, <<Event("ReadAll", f.name)>> >>,
               << <<[by |-> h.documentRenderer, page |-> v]>>, "nil", v,
                  <<Event("ReadAll", f.name), call>> >>,
               << <<>>, "ErrRender", v, <<Event("ReadAll", f.name), call>> >> }

\* lines 92-106, after a rendering function returned outcome o
Rendered(o) ==
  /\ b' = o[1]
  /\ err' = o[2]
  /\ page' = o[3]
  /\ IF o[2] # "nil"
       THEN /\ \E w1 \in ErrorHandlerResponses(o[2]) : w' = w1
            /\ events' = events \o o[4] \o <<Event("errorHandler", o[2])>>
       ELSE /\ w' = w
            /\ events' = events \o o[4]
  /\ pc' = "serve"
  /\ UNCHANGED defers

\* lines 93-97: the directory listing
RenderIndex ==
  /\ pc = "render"
  /\ fi.kind = "dir"
  /\ \E o \in renderIndex : Rendered(o)
  /\ UNCHANGED <<h, given, req, url, name, f, fi, isIndexPage, fis, files, sched>>

\* line 98 without the test of isIndexPage
RedirectsFileAlways(isIndex, u) == HasSuffix(u, <<"/">>)

\* line 98: a file that is not the implicit index, asked for with a trailing "/"
RedirectsFile(isIndex, u) == ~isIndex /\ HasSuffix(u, <<"/">>)

\* the redirect of a file written, and ServeHTTP going on to its last line
FileRedirectGoesOn ==
  /\ pc = "render"
  /\ fi.kind # "dir"
  /\ RedirectsFile(isIndexPage, url)
  /\ LET loc == <<".", ".", "/">> \o Base(url) IN
       /\ w' = redirect(w, req.RawQuery, loc)
       /\ events' = events \o <<Event("redirect", loc)>>
  /\ pc' = "serve"
  /\ UNCHANGED <<h, given, req, url, name, f, fi, isIndexPage, b, err, defers, page,
                 fis, files, sched>>

\* lines 98-100: a file asked for with a trailing "/" is redirected
FileRedirect ==
  /\ pc = "render"
  /\ fi.kind # "dir"
  /\ RedirectsFile(isIndexPage, url)
  /\ LET loc == <<".", ".", "/">> \o Base(url) IN
       /\ w' = redirect(w, req.RawQuery, loc)
       /\ Return(events \o <<Event("redirect", loc)>>)
  /\ UNCHANGED <<h, given, req, url, name, f, fi, isIndexPage, b, err, page, fis, files, sched>>

\* lines 101-105: the document
RenderDocument ==
  /\ pc = "render"
  /\ fi.kind # "dir"
  /\ ~RedirectsFile(isIndexPage, url)
  /\ \E o \in renderDocument : Rendered(o)
  /\ UNCHANGED <<h, given, req, url, name, f, fi, isIndexPage, fis, files, sched>>

\* the status http.ServeContent answers with: 200, 304 to a conditional
\* request whose condition the modification time meets, or 416 to a request
\* whose Range header it cannot satisfy
ServeCodes == {200, 304, 416}

\* line 107: http.ServeContent(w, req, name, fi.ModTime(), bytes.NewReader(b))
ServeContent ==
  /\ pc = "serve"
  /\ \E code \in ServeCodes :
       /\ w' = IF code = 416 THEN HttpError(w, "invalid range", code)
               ELSE IF code = 200 /\ b # <<>> THEN Write(WriteHeader(w, code), b)
               ELSE WriteHeader(w, code)
       /\ Return(events \o <<Event("ServeContent", name)>>)
  /\ UNCHANGED <<h, given, req, url, name, f, fi, isIndexPage, b, err, page, fis, files, sched>>

\* the request is over; the handler waits for the next one
Finish ==
  /\ pc = "done"
  /\ pc' = "idle"
  /\ req' = NoRequest
  /\ url' = <<>>
  /\ name' = <<>>
  /\ f' = NoFile
  /\ fi' = NoFile
  /\ isIndexPage' = FALSE
  /\ b' = <<>>
  /\ err' = "nil"
  /\ defers' = <<>>
  /\ w' = NoResponse
  /\ page' = NoPage
  /\ events' = <<>>
  /\ UNCHANGED <<h, given, fis, files, sched>>

Next ==
  \/ NewHandler
  \/ Request
  \/ Open
  \/ Stat
  \/ DirCheck
  \/ Probe
  \/ RenderIndex
  \/ FileRedirect
  \/ RenderDocument
  \/ ServeContent
  \/ Finish

Spec == Init /\ [][Next]_vars

(***************************************************************************)
(* getFiles alone (src/mdoc.go:204-219), over every short directory        *)
(* content in every order.                                                 *)
(***************************************************************************)
\* the names a directory entry may have
EntryNames ==
  { nAmd, nBmd, nZmarkdown, nHidden, nCtxt, nD, nAMD, nMd, nAmdx }

EntryInfos == [Name : EntryNames, IsDir : BOOLEAN]

\* what Readdir can return: at most MaxEntries entries, no name twice
Listings ==
  { s \in UNION { [1..n -> EntryInfos] : n \in 0..MaxEntries } :
      \A i, j \in 1..Len(s) : i # j => s[i].Name # s[j].Name }

InitFiles ==
  /\ pc = "getFiles"
  /\ h = NoHandler
  /\ given = {}
  /\ FreshRequest
  /\ fis \in Listings
  /\ files = <<>>
  /\ sched = NoSched

GetFiles ==
  /\ pc = "getFiles"
  /\ files' = getFiles(fis)
  /\ pc' = "listed"
  /\ UNCHANGED <<h, given, req, url, name, f, fi, isIndexPage, b, err, defers, w,
                 page, events, fis, sched>>

NextFiles == GetFiles

SpecFiles == InitFiles /\ [][NextFiles]_vars

(***************************************************************************)
(* The resolution of the file name alone (src/mdoc.go:55-62), over URL     *)
(* paths with ".", ".." and empty segments, with and without a leading     *)
(* "/".                                                                    *)
(***************************************************************************)
nDot == <<".">>

PathSegNames == {nD, nAmd, nDotDot, nDot, <<>>}

PathSegLists == UNION { [1..n -> PathSegNames] : n \in 0..MaxPathSegs }

PathInputs ==
  { lead \o JoinSegs(ss) \o trail :
      lead \in {<<>>, <<"/">>}, ss \in PathSegLists, trail \in {<<>>, <<"/">>} }

InitPath ==
  /\ pc = "idle"
  /\ h \in { New(d, <<>>) : d \in Dirs }
  /\ given = {}
  /\ FreshRequest
  /\ fis = <<>>
  /\ files = <<>>
  /\ sched = NoSched

ResolvePath ==
  /\ pc = "idle"
  /\ \E p \in PathInputs : Resolve(p, <<>>)
  /\ UNCHANGED sched

NextPath == ResolvePath

SpecPath == InitPath /\ [][NextPath]_vars

(***************************************************************************)
(* Concurrent requests (net/http runs ServeHTTP of the one handler value   *)
(* h on a goroutine per request).  A request is first served alone and     *)
(* what it did is recorded; then the same request is served again on       *)
(* goroutine 1 while goroutine 2 serves a request of its own, the two      *)
(* taking their steps in any order.  The running goroutine's locals are    *)
(* the variables of ServeHTTP; the other goroutine's are parked in sched.  *)
(* h is the only thing the two share.  The filesystem does not change: an  *)
(* open fails only for a path that is absent, and nothing else fails.      *)
(***************************************************************************)
\* the locals of the ServeHTTP call that is running
Locals ==
  [pc |-> pc, req |-> req, url |-> url, name |-> name, f |-> f, fi |-> fi,
   isIndexPage |-> isIndexPage, b |-> b, err |-> err, defers |-> defers, w |-> w,
   page |-> page, events |-> events]

\* the locals of a call that has not begun
IdleLocals ==
  [pc |-> "idle", req |-> NoRequest, url |-> <<>>, name |-> <<>>, f |-> NoFile,
   fi |-> NoFile, isIndexPage |-> FALSE, b |-> <<>>, err |-> "nil",
   defers |-> <<>>, w |-> NoResponse, page |-> NoPage, events |-> <<>>]

\* what a request did: its response, its calls in order, the page it rendered
OutcomeOf(l) == [req |-> l.req, w |-> l.w, events |-> l.events, page |-> l.page]

\* the URL paths of the concurrent requests
ConcPaths ==
  { <<"/">>, <<"/">> \o nD, <<"/">> \o nD \o <<"/">>, <<"/">> \o nE \o <<"/">>,
    <<"/">> \o nAmd, <<"/">> \o nAmd \o <<"/">>, <<"/">> \o nCtxt,
    <<"/">> \o nD \o <<"/">> \o nCtxt }

\* the configurations of the handler the requests share
ConcConfigs ==
  { <<>>, <<[opt |-> "ErrorHandler", arg |-> <<"customErrorHandler">>]>> }

\* the failures an unchanged filesystem gives: a path that is not there, and
\* the handler's own ErrNotFound
SteadyErrors == {"ENOENT", "ENOTDIR", ErrNotFound}

\* evs and resp are what a request does when nothing fails in passing, the
\* request is unconditional and without Range, and the error handler is a
\* function of the error
Steady(evs, resp) ==
  /\ \A i \in 1..Len(evs) :
       /\ evs[i].op \in {"OpenFailed", "StatFailed", "OpenIndexFailed", "errorHandler"}
            => evs[i].arg \in SteadyErrors
       /\ evs[i].op # "StatIndexFailed"
  /\ resp.status \notin {304, 416}
  /\ \A i \in 1..Len(resp.body) : resp.body[i] # [text |-> "invalid range"]
  /\ (\E i \in 1..Len(evs) : evs[i].op = "errorHandler") => resp.wrote

InitConc ==
  /\ pc = "idle"
  /\ \E dir \in Dirs, os \in ConcConfigs :
       /\ h = New(dir, os)
       /\ given = {os[i].opt : i \in 1..Len(os)}
  /\ FreshRequest
  /\ fis = <<>>
  /\ files = <<>>
  /\ sched = [phase |-> "alone", slot |-> 1, parked |-> IdleLocals,
              solo |-> OutcomeOf(IdleLocals), mixed |-> FALSE]

\* a request arrives: goroutine 1 serves again the request served alone
ConcRequest ==
  /\ sched.phase \in {"alone", "together"}
  /\ pc = "idle"
  /\ \E p \in ConcPaths :
       /\ (sched.phase = "together" /\ sched.slot = 1) => p = sched.solo.req.Path
       /\ Resolve(p, <<>>)
  /\ UNCHANGED sched

\* the running goroutine takes a step of ServeHTTP
ConcStep ==
  /\ sched.phase \in {"alone", "together"}
  /\ \/ Open
     \/ Stat
     \/ DirCheck
     \/ Probe
     \/ RenderIndex
     \/ FileRedirect
     \/ RenderDocument
     \/ ServeContent
  /\ Steady(events', w')

\* the request served alone is over: what it did is kept, and the two
\* goroutines begin
ConcAloneDone ==
  /\ sched.phase = "alone"
  /\ pc = "done"
  /\ sched' = [sched EXCEPT !.phase = "together", !.solo = OutcomeOf(Locals)]
  /\ pc' = "idle"
  /\ req' = NoRequest
  /\ url' = <<>>
  /\ name' = <<>>
  /\ f' = NoFile
  /\ fi' = NoFile
  /\ isIndexPage' = FALSE
  /\ b' = <<>>
  /\ err' = "nil"
  /\ defers' = <<>>
  /\ w' = NoResponse
  /\ page' = NoPage
  /\ events' = <<>>
  /\ UNCHANGED <<h, given, fis, files>>

\* a call of ServeHTTP that has begun and has not returned
InFlight(l) == l.pc \notin {"idle", "done"}

\* the scheduler runs the other goroutine
ConcSwitch ==
  /\ sched.phase = "together"
  /\ sched.parked.pc # "done"
  /\ sched' = [sched EXCEPT !.parked = Locals,
                            !.slot = 3 - @,
                            !.mixed = @ \/ (InFlight(Locals) /\ InFlight(sched.parked))]
  /\ pc' = sched.parked.pc
  /\ req' = sched.parked.req
  /\ url' = sched.parked.url
  /\ name' = sched.parked.name
  /\ f' = sched.parked.f
  /\ fi' = sched.parked.fi
  /\ isIndexPage' = sched.parked.isIndexPage
  /\ b' = sched.parked.b
  /\ err' = sched.parked.err
  /\ defers' = sched.parked.defers
  /\ w' = sched.parked.w
  /\ page' = sched.parked.page
  /\ events' = sched.parked.events
  /\ UNCHANGED <<h, given, fis, files>>

NextConc ==
  \/ ConcRequest
  \/ ConcStep
  \/ ConcAloneDone
  \/ ConcSwitch

SpecConc == InitConc /\ [][NextConc]_vars

(***************************************************************************)
(* Properties.                                                             *)
(***************************************************************************)
\* the positions of the calls named op among the events of the request
Ops(op) == { i \in 1..Len(events) : events[i].op = op }

RangeOf(s) == { s[i] : i \in 1..Len(s) }

\* the request URL path, beginning with "/"
ReqPath == IF HasPrefix(req.Path, <<"/">>) THEN req.Path ELSE <<"/">> \o req.Path

\* the part of u after its last "/"
SegAfterLastSlash(u) ==
  LET k == CHOOSE k \in 0..Len(u) :
             /\ k = 0 \/ u[k] = "/"
             /\ \A j \in (k + 1)..Len(u) : u[j] # "/"
  IN SubSeq(u, k + 1, Len(u))

\* u without the "/" characters it ends with
WithoutTrailingSlashes(u) ==
  LET k == CHOOSE k \in 0..Len(u) :
             /\ k = 0 \/ u[k] # "/"
             /\ \A j \in (k + 1)..Len(u) : u[j] = "/"
  IN SubSeq(u, 1, k)

\* loc followed by "?" and the raw query of the request when it has one
WithQuery(loc) ==
  IF req.RawQuery = <<>> THEN loc ELSE loc \o <<"?">> \o req.RawQuery

\* the failure kinds the three statuses of the default error handler stand for
NotFoundErrors == {ErrNotFound, "ENOENT"}
PermissionErrors == {"EACCES", "EPERM"}

\* the index.md probe of a directory request took place
Probed == Ops("OpenIndex") \cup Ops("OpenIndexFailed") # {}

\* the file named n went down the document path: renderDocument read it
DocumentPath(n) == \E i \in Ops("ReadAll") : events[i].arg = n

\* the directory named n went down the listing path: getFiles read it
ListingPath(n) == \E i \in Ops("Readdir") : events[i].arg = n

\* C1: every request ends with exactly one of the three outcomes: a redirect,
\* the content-serving step, or the error handler; never none, never two.
C1_ExactlyOneOutcome ==
  pc = "done" =>
    Cardinality({ k \in {"redirect", "ServeContent", "errorHandler"} : Ops(k) # {} }) = 1

\* C2: on a failed request the error handler is called exactly once and no
\* write to the response follows it: only the deferred closes come after it,
\* in particular http.ServeContent does not.
C2_ErrorHandlerIsLast ==
  (pc = "done" /\ (err # "nil" \/ Ops("errorHandler") # {})) =>
    /\ Cardinality(Ops("errorHandler")) = 1
    /\ \A i \in Ops("errorHandler") :
         \A j \in (i + 1)..Len(events) : events[j].op = "Close"

\* C3: a handler built with the IndexRenderer (DocumentRenderer) option calls
\* the supplied function, never the default one, at every index (document)
\* render.
C3_SuppliedRenderersUsed ==
  \A i \in 1..Len(events) :
    /\ (events[i].op = "indexRenderer" /\ "IndexRenderer" \in given)
         => events[i].arg = "customIndexRenderer"
    /\ (events[i].op = "documentRenderer" /\ "DocumentRenderer" \in given)
         => events[i].arg = "customDocumentRenderer"

\* C4: a request that resolves to a directory, with a URL path (taken with
\* its leading "/") that does not end with "/", is answered 307 with Location
\* the last segment of the URL path, one "/", and "?" and the raw query when
\* there is one; whether the directory holds index.md makes no difference.
C4_DirectoryRedirect ==
  (pc = "done" /\ fi.kind = "dir" /\ ~HasSuffix(ReqPath, <<"/">>)) =>
    /\ w.status = 307
    /\ w.location = WithQuery(SegAfterLastSlash(ReqPath) \o <<"/">>)
    /\ w.body = <<>>

\* C4's case: a directory that holds index.md, asked for without the "/" and
\* with a query string, has been redirected.
C4_Witness ==
  /\ pc = "done"
  /\ fi.kind = "dir"
  /\ ~HasSuffix(ReqPath, <<"/">>)
  /\ req.RawQuery # <<>>
  /\ Kind(Components(h.dir, name) \o <<nIndexMd>>) = "file"
  /\ w.status = 307

\* C5: a request that resolves to a regular file, not through the index.md
\* fallback, with a URL path that ends with "/", is answered 307 with Location
\* "../", the last segment of the URL path without its trailing "/", and the
\* query; Markdown or not.
C5_FileRedirect ==
  (pc = "done" /\ fi.kind = "file" /\ ~Probed /\ HasSuffix(ReqPath, <<"/">>)) =>
    /\ w.status = 307
    /\ w.location =
         WithQuery(<<".", ".", "/">>
                     \o SegAfterLastSlash(WithoutTrailingSlashes(ReqPath)))
    /\ w.body = <<>>

\* C5's case: a file that is not Markdown, asked for with a trailing "/", has
\* been redirected.
C5_Witness ==
  /\ pc = "done"
  /\ fi.kind = "file"
  /\ ~Probed
  /\ HasSuffix(ReqPath, <<"/">>)
  /\ HasSuffix(f.name, nCtxt)
  /\ w.status = 307

\* what C6 says of a directory request whose index.md is the entry named n
IndexServedAsDocument(n) ==
  /\ DocumentPath(n)
  /\ Ops("Readdir") = {}
  /\ Ops("redirect") = {}
  /\ page.kind # "none" => (page.kind = "document" /\ page.Layout.path = ReqPath)

\* C6 as stated: whenever the directory of a request ending with "/" holds an
\* entry named index.md, the request takes the document path for it, never the
\* listing path, without a redirect, and with the directory URL as the page's
\* path.
C6_IndexAlwaysDocument ==
  (pc \in {"serve", "done"} /\ Probed /\ Kind(Components(h.dir, name)) # "none") =>
    IndexServedAsDocument(name)

\* C6 amended: that holds when index.md was opened and stat-ed and is a regular
\* file.  When the open or the stat of index.md fails the directory itself is
\* listed, and an index.md that is a directory has its own entries listed; no
\* request that reaches the probe is redirected.
C6_IndexDocumentWhenOpened ==
  (pc \in {"serve", "done"} /\ Probed) =>
    /\ Ops("redirect") = {}
    /\ (Ops("StatIndex") # {} /\ Kind(Components(h.dir, name)) = "file")
         => IndexServedAsDocument(name)
    /\ (Ops("StatIndex") # {} /\ Kind(Components(h.dir, name)) = "dir")
         => (ListingPath(name) /\ Ops("ReadAll") = {})
    /\ Ops("StatIndex") = {}
         => /\ ListingPath(SubSeq(name, 1, Len(name) - Len(sIndexSuffix)))
            /\ Ops("ReadAll") = {}

\* C6's case: index.md of a directory was served as a rendered document.
C6_Witness ==
  /\ pc = "done"
  /\ Ops("StatIndex") # {}
  /\ Kind(Components(h.dir, name)) = "file"
  /\ page.kind = "document"
  /\ page.Layout.path = ReqPath
  /\ w.status = 200
  /\ w.body # <<>>

\* an entry belongs in a listing: not hidden, and a directory or a file whose
\* name ends with ".md" or ".markdown"
Listed(e) ==
  /\ e.Name[1] # "."
  /\ e.IsDir \/ HasSuffix(e.Name, sMd) \/ HasSuffix(e.Name, sMarkdown)

\* C7: the listing of getFiles holds an entry of the directory exactly when
\* its name does not start with "." and it is a directory or a file with
\* extension ".md" or ".markdown"; nothing else is in it and nothing twice.
C7_ListingFilter ==
  pc = "listed" =>
    /\ \A e \in RangeOf(fis) : e \in RangeOf(files) <=> Listed(e)
    /\ RangeOf(files) \subseteq RangeOf(fis)
    /\ \A i, j \in 1..Len(files) : i # j => files[i] # files[j]

\* C7's case: a hidden directory and a file with extension ".MD" were dropped
\* and something was kept.
C7_Witness ==
  /\ pc = "listed"
  /\ \E e \in RangeOf(fis) : e.Name = nHidden /\ e.IsDir
  /\ \E e \in RangeOf(fis) : e.Name = nAMD /\ ~e.IsDir
  /\ Len(files) = 1

\* s comes before t in byte-wise lexical order: they differ first at a
\* position where s has ended or has the smaller byte
LexBefore(s, t) ==
  \E k \in 1..Len(t) :
    /\ k <= Len(s) + 1
    /\ \A j \in 1..(k - 1) : s[j] = t[j]
    /\ k = Len(s) + 1 \/ Ord(s[k]) < Ord(t[k])

\* C8: in the listing of getFiles every directory comes before every file,
\* directories and files are each in ascending byte-wise order of name, and
\* every order of the same entries gives the same listing.
C8_ListingOrder ==
  pc = "listed" =>
    /\ \A i, j \in 1..Len(files) :
         i < j => /\ files[i].IsDir \/ ~files[j].IsDir
                  /\ files[i].IsDir = files[j].IsDir
                       => LexBefore(files[i].Name, files[j].Name)
    /\ \A p \in Orders(RangeOf(fis)) : getFiles(p) = files

\* C8's case: two files, the upper-case name second, and a directory last
\* were put in order.
C8_Witness ==
  /\ pc = "listed"
  /\ fis = <<[Name |-> nAmd, IsDir |-> FALSE], [Name |-> nBmd, IsDir |-> FALSE],
             [Name |-> nD, IsDir |-> TRUE]>>
  /\ files = <<[Name |-> nD, IsDir |-> TRUE], [Name |-> nBmd, IsDir |-> FALSE],
               [Name |-> nAmd, IsDir |-> FALSE]>>

\* C9: a file that reaches document rendering with an extension other than
\* ".md" and ".markdown" gets ErrNotFound, is not read, is not handed to the
\* document hook, and with the default error handler the status is 404.
C9_NotMarkdownIsNotFound ==
  (/\ pc \in {"serve", "done"}
   /\ fi.kind = "file"
   /\ Ops("redirect") = {}
   /\ ~HasSuffix(f.name, sMd) /\ ~HasSuffix(f.name, sMarkdown)) =>
    /\ err = ErrNotFound
    /\ Ops("ReadAll") = {}
    /\ Ops("documentRenderer") = {}
    /\ \A i \in Ops("errorHandler") : events[i].arg = ErrNotFound
    /\ h.errorHandler = "defaultErrorHandler" => w.status = 404

\* C9's case: c.txt was asked for and answered 404.
C9_Witness ==
  /\ pc = "done"
  /\ fi.kind = "file"
  /\ HasSuffix(f.name, nCtxt)
  /\ Ops("redirect") = {}
  /\ h.errorHandler = "defaultErrorHandler"
  /\ w.status = 404

\* the status the default policy gives a failure
PolicyStatus(e) ==
  IF e \in NotFoundErrors THEN 404 ELSE IF e \in PermissionErrors THEN 403 ELSE 500

SegmentsOf(c) ==
  { SubSeq(c, i, j) : <<i, j>> \in
      { ij \in (2..(Len(c) + 1)) \X (1..Len(c)) :
          /\ ij[2] >= ij[1] - 1
          /\ c[ij[1] - 1] = "/"
          /\ ij[2] = Len(c) \/ c[ij[2] + 1] = "/"
          /\ \A k \in ij[1]..ij[2] : c[k] # "/" } }

CleanedPath(c) ==
  /\ Len(c) >= 1
  /\ c[1] = "/"
  /\ c = <<"/">> \/ SegmentsOf(c) \cap {<<>>, <<".">>, <<".", ".">>} = {}

C11_OpenedPathInsideBase ==
  pc = "open" =>
    IF ReqPath = <<"/">>
      THEN name = h.dir
      ELSE /\ HasPrefix(name, h.dir)
           /\ CleanedPath(SubSeq(name, Len(h.dir) + 1, Len(name)))

C11_Witness ==
  /\ pc = "open"
  /\ req.Path = <<".", ".", "/", ".", "/", "/", "d">>
  /\ name = h.dir \o <<"/", "d">>

(***************************************************************************)
(* C12: for every mount prefix configured with Root and every asset name,  *)
(* the URL that Layout.StaticFile(name) returns is routed by the handler   *)
(* New returns to the asset file server rooted at <theme>/assets, not to   *)
(* the Markdown handler.                                                   *)
(***************************************************************************)
C12_StaticFileRoutedToAssets ==
  page.kind # "none" =>
    \A n \in AssetNames :
      Route(h, StaticFile(page.Layout, n)) =
        [handler |-> "assets", file |-> AssetsDir(h.themeDir) \o <<"/">> \o n]

(***************************************************************************)
(* C13: the Name of the DocumentPage passed to the document rendering hook *)
(* is the base name of the source file: the last segment of the file's     *)
(* resolved path, with no directory part.                                  *)
(***************************************************************************)
C13_NameIsBaseName ==
  page.kind = "document" =>
    /\ page.Name = SegAfterLastSlash(f.name)
    /\ \A i \in 1..Len(page.Name) : page.Name[i] # "/"

(***************************************************************************)
(* C14: for every configured mount prefix and every request path served,   *)
(* Layout.Dir() is the request path relative to the mount prefix and       *)
(* begins with "/": it starts with exactly one "/" and the mount prefix    *)
(* followed by it (less the "/" they share) is the request path.           *)
(***************************************************************************)
C14_DirIsMountRelative ==
  page.kind # "none" =>
    LET dir == LayoutDir(page.Layout) IN
    /\ dir[1] = "/"
    /\ Len(dir) >= 2 => dir[2] # "/"
    /\ WithoutTrailingSlashes(h.root) \o dir = ReqPath

(***************************************************************************)
(* C15: on every exit path of ServeHTTP every file handle that was opened  *)
(* (the primary file and the index.md probe) is closed exactly once before *)
(* the handler returns, also when the index.md handle replaced the         *)
(* directory handle; nothing that was not opened is closed.                *)
(***************************************************************************)
\* the positions at which a handle was obtained
Opened == Ops("Open") \cup Ops("OpenIndex")

C15_HandlesClosedOnce ==
  pc = "done" =>
    /\ \A i \in Opened :
         Cardinality({ j \in Ops("Close") : events[j].arg = events[i].arg /\ j > i }) = 1
    /\ \A j \in Ops("Close") :
         Cardinality({ i \in Opened : events[i].arg = events[j].arg /\ i < j }) = 1
    /\ defers = <<>>

C15_Witness ==
  /\ pc = "done"
  /\ isIndexPage
  /\ Cardinality(Opened) = 2
  /\ Cardinality(Ops("Close")) = 2
  /\ Ops("ServeContent") # {}

(***************************************************************************)
(* C16: on every request that ends in a redirect, the redirect is the only *)
(* response event: apart from the open and stat of the resolved path and   *)
(* the closing of its handle, no directory read, no file read, no          *)
(* rendering hook call, no error handler call and no content-serving step  *)
(* happens before or after it.                                             *)
(***************************************************************************)
C16_RedirectIsOnlyResponse ==
  (pc = "done" /\ Ops("redirect") # {}) =>
    /\ Cardinality(Ops("redirect")) = 1
    /\ \A i \in 1..Len(events) : events[i].op \in {"Open", "Stat", "redirect", "Close"}
    /\ \A i \in Ops("redirect") : \A j \in (i + 1)..Len(events) : events[j].op = "Close"
    /\ w.wrote /\ w.status = 307 /\ w.body = <<>>

C16_Witness ==
  /\ pc = "done"
  /\ Ops("redirect") # {}
  /\ fi.kind = "file"
  /\ Ops("Close") # {}

(***************************************************************************)
(* C17: when the open or the stat of the resolved path fails, the error    *)
(* handler receives that same failure and the request ends: no redirect,   *)
(* no index.md probe, no rendering and no content-serving step follows.    *)
(***************************************************************************)
\* the positions at which the open or the stat of the resolved path failed
PrimaryFailures == Ops("OpenFailed") \cup Ops("StatFailed")

C17_PrimaryFailureEndsRequest ==
  (pc = "done" /\ PrimaryFailures # {}) =>
    /\ \A i \in PrimaryFailures :
         /\ i < Len(events)
         /\ events[i + 1].op = "errorHandler"
         /\ events[i + 1].arg = events[i].arg
         /\ \A j \in (i + 2)..Len(events) : events[j].op = "Close"
    /\ Cardinality(Ops("errorHandler")) = 1
    /\ \A i \in 1..Len(events) :
         events[i].op \in {"Open", "OpenFailed", "StatFailed", "errorHandler", "Close"}
    /\ page = NoPage /\ b = <<>>
    /\ h.errorHandler = "defaultErrorHandler" =>
         /\ w.status \in {403, 404, 500}
         /\ w.location = <<>>

C17_Witness ==
  /\ pc = "done"
  /\ \E i \in Ops("StatFailed") : events[i + 1] = [op |-> "errorHandler", arg |-> "EIO"]
  /\ Ops("Close") # {}

(***************************************************************************)
(* C18: for a directory URL ending with "/", when opening <dir>/index.md   *)
(* fails for any reason (absent, permission denied, or another error) the  *)
(* request falls through to the listing of the directory's own entries,    *)
(* and the error handler is not invoked for the failed probe.              *)
(***************************************************************************)
\* the reasons for which the open of index.md can fail
ProbeFailures == {"ENOENT", "ENOTDIR", "EACCES", "EPERM", "EMFILE", "EIO"}

C18_FailedProbeFallsToListing ==
  (pc \in {"serve", "done"} /\ Ops("OpenIndexFailed") # {}) =>
    /\ \A i \in Ops("OpenIndexFailed") :
         /\ events[i].arg \in ProbeFailures
         /\ i < Len(events)
         /\ events[i + 1].op = "Readdir"
         /\ events[i + 1].arg = events[1].arg
    /\ events[1].op = "Open"
    /\ events[1].arg \o sIndexSuffix = name
    /\ Ops("ReadAll") = {} /\ Ops("documentRenderer") = {} /\ Ops("redirect") = {}
    /\ \A j \in Ops("errorHandler") :
         /\ events[j].arg = err
         /\ \E k \in Ops("Readdir") : k < j
    /\ page.kind # "none" =>
         /\ page.kind = "index"
         /\ \A k \in 1..Len(page.Files) :
              \E e \in Entries(Components(h.dir, events[1].arg)) :
                e.Name = page.Files[k].Name

C18_Witness ==
  /\ pc = "done"
  /\ \E i \in Ops("OpenIndexFailed") : events[i].arg = "EACCES"
  /\ page.kind = "index"
  /\ Len(page.Files) > 0
  /\ Ops("errorHandler") = {}
  /\ Ops("ServeContent") # {}

(***************************************************************************)
(* C20: with the default error handler the response to a failure depends   *)
(* only on the status class (404, 403 or 500): any two failures that map   *)
(* to the same status produce the same status and the same body, the       *)
(* status text alone, and no detail of the failure reaches the client.     *)
(***************************************************************************)
\* the body every failure of a status class is to be answered with
ClassBody(status) ==
  CASE status = 404 -> <<[text |-> "Not Found"]>>
    [] status = 403 -> <<[text |-> "Forbidden"]>>
    [] status = 500 -> <<[text |-> "Internal Server Error"]>>

\* what the client has received once the request is over
ClassResponse(e) ==
  [wrote |-> TRUE, status |-> PolicyStatus(e), location |-> <<>>,
   body |-> ClassBody(PolicyStatus(e))]

\* the default handler taken alone, up to the point it returns: equal status
\* class, equal response (holds)
DefaultHandlerDependsOnClassOnly ==
  /\ \A e1, e2 \in Errors :
       PolicyStatus(e1) = PolicyStatus(e2) =>
         defaultErrorHandler(NoResponse, e1) = defaultErrorHandler(NoResponse, e2)
  /\ (pc \in {"serve", "done"} /\ h.errorHandler = "defaultErrorHandler"
        /\ Ops("ServeContent") = {}) =>
       \A i \in Ops("errorHandler") : w = ClassResponse(events[i].arg)

\* C20 for the response of the whole request: a failure of the rendering
\* stage and a failure of the open of the same status class are answered alike
C20_ResponseDependsOnClassOnly ==
  (pc = "done" /\ h.errorHandler = "defaultErrorHandler") =>
    \A i \in Ops("errorHandler") : w = ClassResponse(events[i].arg)

(***************************************************************************)
(* C19: for any interleaving of concurrent requests over an unchanged      *)
(* filesystem, no step of handling a request modifies a field of the       *)
(* shared handler configuration, and each request's outcome (response,     *)
(* calls made, page rendered) is the outcome it has when handled alone.    *)
(***************************************************************************)
\* goroutine 1, the one serving again the request that was served alone
Observed == IF sched.slot = 1 THEN Locals ELSE sched.parked

\* the request goroutine 2 serves
Bystander == IF sched.slot = 2 THEN Locals ELSE sched.parked

IsPrefix(s, t) == Len(s) <= Len(t) /\ s = SubSeq(t, 1, Len(s))

OutcomeAsAlone ==
  sched.phase = "together" =>
    /\ IsPrefix(Observed.events, sched.solo.events)
    /\ Observed.pc = "done" => OutcomeOf(Observed) = sched.solo

C19_ConcurrentAsAlone == [] OutcomeAsAlone /\ [][h' = h /\ given' = given]_vars

C19_Witness ==
  /\ sched.phase = "together"
  /\ sched.mixed
  /\ Observed.pc = "done"
  /\ Bystander.pc = "done"
  /\ Observed.req # Bystander.req
  /\ OutcomeOf(Observed) = sched.solo
  /\ Observed.page.kind = "document"
  /\ Bystander.page.kind = "index"

====
